---- MODULE Spec2Model ----
(***************************************************************************)
(* Hospital queue server: the Patient collection, the hybrid slotting      *)
(* composer (getSortedQueue), the wait-time annotator (calculateWaitTimes) *)
(* and the REST / socket handlers that mutate the collection and emit      *)
(* QUEUE_UPDATE.  In Spec, SpecServing, SpecQueue and SpecFault handlers   *)
(* run one at a time (serialized): each action is one whole handler, from  *)
(* its first store call to its response.  In SpecInterleaved handlers      *)
(* suspend at each await of a store call and other handlers run meanwhile. *)
(***************************************************************************)
EXTENDS Naturals, Integers, Sequences, FiniteSets

VARIABLES
    store,      \* the Patient collection: a set of documents
    nextId,     \* number of _id values the store has handed out
    now,        \* the wall clock at its latest reading (Date.now, new Date());
                \* time is counted from the first reading, 0 before it
    highest,    \* history: the largest tokenNumber assigned so far
    edits,      \* history: number of PUT /api/patients/:id/status requests
    sorted,     \* what the latest handler's last getSortedQueue() call
                \* returned (empty when it made none)
    annotated,  \* what the latest handler's calculateWaitTimes() call
                \* returned (empty when it made none)
    broadcast,  \* payload of the latest io.emit('QUEUE_UPDATE', ...)
    resp,       \* what the latest handler answered, and what it did
    running     \* the handlers suspended at an await, with their locals
                \* (all idle when handlers run one at a time)

vars == <<store, nextId, now, highest, edits, sorted, annotated, broadcast, resp,
          running>>

-----------------------------------------------------------------------------
(* Bounds of the model.                                                    *)

\* registrations (documents ever inserted) in the handler specification
MaxPatients == 3
\* largest clock value in the handler specification
MaxTime == 2
\* status edits sent by the administrator in one run
MaxEdits == 1
\* documents of a store with free status and tied createdAt (queue reads)
MaxRich == 3
\* documents of a store of WAITING patients with distinct createdAt
MaxPlain == 7
\* handlers that can be in flight at the same time (SpecInterleaved)
MaxHandlers == 2
\* registrations (documents ever inserted) in SpecInterleaved
MaxArrivals == 2

-----------------------------------------------------------------------------
(* Types of src/src/types/patient.ts and the schema of models/Patient.     *)

Types == {"BOOKED", "WALK_IN"}
Statuses == {"WAITING", "IN_PROGRESS", "DONE"}

\* an unset Date field (startedAt, completedAt)
NoDate == 0

\* an _id of 0 stands for "no document"
NoId == 0

NewPatient(id, token, type, at) ==
    [_id |-> id, tokenNumber |-> token, type |-> type, status |-> "WAITING",
     createdAt |-> at, startedAt |-> NoDate, completedAt |-> NoDate]

InProgress(S) == {p \in S : p.status = "IN_PROGRESS"}
Waiting(S) == {p \in S : p.status = "WAITING"}

\* the filter { status: { $in: ['WAITING', 'IN_PROGRESS'] } }
Active(S) == {p \in S : p.status \in {"WAITING", "IN_PROGRESS"}}

\* Patient.find(filter).sort({ createdAt: 1 }): every order of the matching
\* documents that is ascending in createdAt.  The sort has no second key, so
\* documents with equal createdAt come back in an order the store chooses.
RECURSIVE SortByCreatedAt(_)
SortByCreatedAt(S) ==
    IF S = {} THEN {<<>>}
    ELSE UNION { { <<m>> \o rest : rest \in SortByCreatedAt(S \ {m}) } :
                 m \in {x \in S : \A y \in S : x.createdAt <= y.createdAt} }

FindActiveSorted(S) == SortByCreatedAt(Active(S))

-----------------------------------------------------------------------------
(* getSortedQueue: the hybrid slotting merge.                              *)

\* for (let i = 0; i < 3 && bookedIndex < bookedPatients.length; i++)
BookedPerSlot == 3

IsBooked(p) == p.type = "BOOKED"
IsWalkIn(p) == p.type = "WALK_IN"

\* mutant: the bound of the for loop read as i <= 3
RECURSIVE PushBookedOffByOne(_, _, _, _)
PushBookedOffByOne(bookedPatients, bookedIndex, i, sortedQueue) ==
    IF i <= BookedPerSlot /\ bookedIndex < Len(bookedPatients)
    THEN PushBookedOffByOne(bookedPatients, bookedIndex + 1, i + 1,
                            Append(sortedQueue, bookedPatients[bookedIndex + 1]))
    ELSE [bookedIndex |-> bookedIndex, sortedQueue |-> sortedQueue]

\* the inner for loop: pushes bookedPatients[bookedIndex++] while i < 3
RECURSIVE PushBooked(_, _, _, _)
PushBooked(bookedPatients, bookedIndex, i, sortedQueue) ==
    IF i < BookedPerSlot /\ bookedIndex < Len(bookedPatients)
    THEN PushBooked(bookedPatients, bookedIndex + 1, i + 1,
                    Append(sortedQueue, bookedPatients[bookedIndex + 1]))
    ELSE [bookedIndex |-> bookedIndex, sortedQueue |-> sortedQueue]

\* mutant: the while condition written with && (stops when one list ends)
RECURSIVE SlotLoopWhileBoth(_, _, _, _, _)
SlotLoopWhileBoth(bookedPatients, walkInPatients, bookedIndex, walkInIndex, sortedQueue) ==
    IF bookedIndex < Len(bookedPatients) /\ walkInIndex < Len(walkInPatients)
    THEN LET b == PushBooked(bookedPatients, bookedIndex, 0, sortedQueue)
         IN  SlotLoopWhileBoth(bookedPatients, walkInPatients, b.bookedIndex,
                               walkInIndex + 1,
                               Append(b.sortedQueue,
                                      walkInPatients[walkInIndex + 1]))
    ELSE sortedQueue

\* the while loop over bookedIndex / walkInIndex (0-based, as in the source)
RECURSIVE SlotLoop(_, _, _, _, _)
SlotLoop(bookedPatients, walkInPatients, bookedIndex, walkInIndex, sortedQueue) ==
    IF bookedIndex < Len(bookedPatients) \/ walkInIndex < Len(walkInPatients)
    THEN LET b == PushBooked(bookedPatients, bookedIndex, 0, sortedQueue)
         IN  IF walkInIndex < Len(walkInPatients)
             THEN SlotLoop(bookedPatients, walkInPatients, b.bookedIndex,
                           walkInIndex + 1,
                           Append(b.sortedQueue, walkInPatients[walkInIndex + 1]))
             ELSE SlotLoop(bookedPatients, walkInPatients, b.bookedIndex,
                           walkInIndex, b.sortedQueue)
    ELSE sortedQueue

\* mutant: the two filters swapped, so walk-ins take the groups of 3
getSortedQueueSwapped(patients) ==
    SlotLoop(SelectSeq(patients, IsWalkIn), SelectSeq(patients, IsBooked),
             0, 0, <<>>)

\* getSortedQueue on the documents the find().sort() returned
getSortedQueue(patients) ==
    SlotLoop(SelectSeq(patients, IsBooked), SelectSeq(patients, IsWalkIn),
             0, 0, <<>>)

-----------------------------------------------------------------------------
(* calculateWaitTimes.                                                     *)

\* const estimatedWaitTime = position * 15
SlotMinutes == 15

\* mutant: position is the index for every status
QueueItemByIndex(patient, index) ==
    [_id |-> patient._id, tokenNumber |-> patient.tokenNumber,
     type |-> patient.type, status |-> patient.status,
     createdAt |-> patient.createdAt, startedAt |-> patient.startedAt,
     completedAt |-> patient.completedAt,
     position |-> index,
     estimatedWaitTime |-> index * SlotMinutes]

QueueItem(patient, index) ==
    LET position == IF patient.status = "IN_PROGRESS" THEN 0 ELSE index
    IN  [_id |-> patient._id, tokenNumber |-> patient.tokenNumber,
         type |-> patient.type, status |-> patient.status,
         createdAt |-> patient.createdAt, startedAt |-> patient.startedAt,
         completedAt |-> patient.completedAt,
         position |-> position,
         estimatedWaitTime |-> position * SlotMinutes]

\* queue.map((patient, index) => ...), index 0-based
calculateWaitTimes(queue) ==
    [k \in 1..Len(queue) |-> QueueItem(queue[k], k - 1)]

-----------------------------------------------------------------------------
(* Responses.  code is the HTTP status (0 for a socket event), ok tells a  *)
(* success answer from an error answer, emits counts the io.emit calls of  *)
(* the handler, completed and started are the documents START_CONSULTATION *)
(* moved, whatsappSent is the flag POST /api/patients returns, failed is   *)
(* the store call of the handler that rejected ("NONE" when none did).     *)

Response(op, code, ok, emits) ==
    [op |-> op, code |-> code, ok |-> ok, emits |-> emits,
     completed |-> NoId, started |-> NoId, whatsappSent |-> FALSE,
     failed |-> "NONE"]

Lookup(S, id) == {p \in S : p._id = id}

\* Patient.findOne().sort({ tokenNumber: -1 }); (lastPatient?.tokenNumber || 0)
LastTokenNumber(S) ==
    IF S = {} THEN 0
    ELSE CHOOSE t \in {p.tokenNumber : p \in S} :
             \A p \in S : p.tokenNumber <= t

NoResponse == Response("NONE", 0, TRUE, 0)

\* the handlers in flight: slots of the event loop
Handlers == 1..MaxHandlers

\* the locals a suspended handler holds: where it resumes (pc), the patient
\* findOneAndUpdate returned (completed), queue[0]._id of the queue it read
\* (head, NoId for an empty queue), and the tokenNumber and type of the
\* Patient it is about to save
Suspended(pc, completed, head, tokenNumber, type) ==
    [pc |-> pc, completed |-> completed, head |-> head,
     tokenNumber |-> tokenNumber, type |-> type]

Idle == Suspended("idle", NoId, NoId, 0, "WALK_IN")

Init ==
    /\ store = {}
    /\ nextId = 0
    /\ now = 0
    /\ highest = 0
    /\ edits = 0
    /\ sorted = <<>>
    /\ annotated = <<>>
    /\ broadcast = <<>>
    /\ resp = NoResponse
    /\ running = [h \in Handlers |-> Idle]

\* what a reading of the clock can give: the first reading is time 1; the
\* clock never runs backwards, and two readings can fall into the same
\* millisecond (they all do once the clock is at the bound)
Clock ==
    IF now = 0 THEN {1} ELSE {at \in {now, now + 1} : at = now \/ at <= MaxTime}

\* getSortedQueue(); calculateWaitTimes(queue); io.emit('QUEUE_UPDATE', ...)
\* on the collection S the handler leaves behind
Publish(S) ==
    \E patients \in FindActiveSorted(S) :
        /\ sorted' = getSortedQueue(patients)
        /\ annotated' = calculateWaitTimes(sorted')
        /\ broadcast' = annotated'

\* socket.on('GET_QUEUE'): answers the asking socket only
GET_QUEUE ==
    /\ \E patients \in FindActiveSorted(store) :
           /\ sorted' = getSortedQueue(patients)
           /\ annotated' = calculateWaitTimes(sorted')
    /\ resp' = Response("GET_QUEUE", 0, TRUE, 0)
    /\ UNCHANGED <<store, nextId, now, highest, edits, running, broadcast>>

\* Patient.findOneAndUpdate({ status: 'IN_PROGRESS' },
\*                          { status: 'DONE', completedAt: new Date() })
CompleteCurrent(S, currentPatient, at) ==
    (S \ {currentPatient})
        \cup {[currentPatient EXCEPT !.status = "DONE", !.completedAt = at]}

\* mutant: the head of the queue is written DONE without being served
StartNextSkipsService(S, id, at) ==
    {IF p._id = id
     THEN [p EXCEPT !.status = "DONE", !.startedAt = at]
     ELSE p : p \in S}

\* Patient.findByIdAndUpdate(queue[0]._id,
\*                           { status: 'IN_PROGRESS', startedAt: new Date() })
StartNext(S, id, at) ==
    {IF p._id = id
     THEN [p EXCEPT !.status = "IN_PROGRESS", !.startedAt = at]
     ELSE p : p \in S}

\* mutant: the current patient is not completed before the next one starts
AfterCompleteSkipped(S, at) == {[store |-> S, completed |-> NoId]}

\* the store after the findOneAndUpdate of START_CONSULTATION, with the
\* document it matched (any one of the IN_PROGRESS documents, or none)
AfterComplete(S, at) ==
    IF InProgress(S) = {}
    THEN {[store |-> S, completed |-> NoId]}
    ELSE {[store |-> CompleteCurrent(S, cur, at), completed |-> cur._id] :
          cur \in InProgress(S)}

\* mutant: the last element of the queue is started instead of queue[0]
AfterStartLast(S, queue, at) ==
    IF Len(queue) > 0
    THEN [store |-> StartNext(S, queue[Len(queue)]._id, at),
          started |-> queue[Len(queue)]._id]
    ELSE [store |-> S, started |-> NoId]

\* the store after the "if (queue.length > 0)" block, given the queue read
AfterStart(S, queue, at) ==
    IF Len(queue) > 0
    THEN [store |-> StartNext(S, queue[1]._id, at), started |-> queue[1]._id]
    ELSE [store |-> S, started |-> NoId]

\* mutant: an empty queue is reported as an error, with nothing emitted
StartConsultationNeedsQueue ==
    \E at \in Clock :
    \E c \in AfterComplete(store, at) :
    \E patients \in FindActiveSorted(c.store) :
        LET queue == getSortedQueue(patients)
            n == AfterStart(c.store, queue, at)
        IN  /\ now' = at
            /\ store' = n.store
            /\ IF Len(queue) > 0
               THEN /\ Publish(store')
                    /\ resp' = [Response("START_CONSULTATION", 0, TRUE, 1)
                                  EXCEPT !.completed = c.completed,
                                         !.started = n.started]
               ELSE /\ resp' = [Response("START_CONSULTATION", 0, FALSE, 0)
                                  EXCEPT !.completed = c.completed]
                    /\ sorted' = <<>>
                    /\ annotated' = <<>>
                    /\ UNCHANGED broadcast
            /\ UNCHANGED <<nextId, highest, edits, running>>

\* socket.on('START_CONSULTATION')
START_CONSULTATION ==
    \E at \in Clock :
    \E c \in AfterComplete(store, at) :
    \E patients \in FindActiveSorted(c.store) :
        LET queue == getSortedQueue(patients)
            n == AfterStart(c.store, queue, at)
        IN  /\ now' = at
            /\ store' = n.store
            /\ Publish(store')
            /\ resp' = [Response("START_CONSULTATION", 0, TRUE, 1)
                          EXCEPT !.completed = c.completed,
                                 !.started = n.started]
            /\ UNCHANGED <<nextId, highest, edits, running>>

\* the request bodies of POST /api/patients: name and phone present or not,
\* type one of the two kinds or absent
BodyTypes == Types \cup {"ABSENT"}

\* type: type || 'WALK_IN'
TypeOrDefault(type) == IF type = "ABSENT" THEN "WALK_IN" ELSE type

\* what the Twilio client can do with a message: deliver it, not be asked
\* (SEND_WHATSAPP_ON_REGISTER = 'false' or no Twilio client), or reject
Notifications == {"SENT", "SKIPPED", "FAILED"}

\* sendWhatsAppMessage: true when messages.create resolved, false when the
\* send was skipped and false from the catch block when it rejected
sendWhatsAppMessage(outcome) == outcome = "SENT"

\* mutant: a rejected messages.create throws into the catch block of the
\* handler, after patient.save()
PostPatientNotifyFatal(hasName, hasPhone, type, outcome) ==
    \E at \in Clock :
    LET tokenNumber == LastTokenNumber(store) + 1
        patient == NewPatient(nextId + 1, tokenNumber, TypeOrDefault(type), at)
    IN  IF hasName /\ hasPhone
        THEN /\ nextId < MaxPatients
             /\ now' = at
             /\ store' = store \cup {patient}
             /\ nextId' = nextId + 1
             /\ highest' = IF tokenNumber > highest THEN tokenNumber ELSE highest
             /\ IF outcome = "FAILED"
                THEN /\ resp' = Response("POST_PATIENT", 400, FALSE, 0)
                     /\ sorted' = <<>>
                     /\ annotated' = <<>>
                     /\ UNCHANGED broadcast
                ELSE /\ Publish(store')
                     /\ resp' = [Response("POST_PATIENT", 201, TRUE, 1)
                                   EXCEPT !.whatsappSent = sendWhatsAppMessage(outcome)]
             /\ UNCHANGED <<edits, running>>
        ELSE /\ resp' = Response("POST_PATIENT", 400, FALSE, 0)
             /\ sorted' = <<>>
             /\ annotated' = <<>>
             /\ UNCHANGED <<store, nextId, now, highest, edits, running, broadcast>>

\* app.post('/api/patients') when the notification ends in `outcome`
PostPatientNotified(hasName, hasPhone, type, outcome) ==
    \E at \in Clock :
    LET tokenNumber == LastTokenNumber(store) + 1
        patient == NewPatient(nextId + 1, tokenNumber, TypeOrDefault(type), at)
    IN  IF hasName /\ hasPhone
        THEN /\ nextId < MaxPatients
             /\ now' = at
             /\ store' = store \cup {patient}
             /\ nextId' = nextId + 1
             /\ highest' = IF tokenNumber > highest THEN tokenNumber ELSE highest
             /\ Publish(store')
             /\ resp' = [Response("POST_PATIENT", 201, TRUE, 1)
                           EXCEPT !.whatsappSent = sendWhatsAppMessage(outcome)]
             /\ UNCHANGED <<edits, running>>
        ELSE \* patient.save() rejects: name and phone are required
             /\ resp' = Response("POST_PATIENT", 400, FALSE, 0)
             /\ sorted' = <<>>
             /\ annotated' = <<>>
             /\ UNCHANGED <<store, nextId, now, highest, edits, running, broadcast>>

\* app.post('/api/patients')
PostPatient(hasName, hasPhone, type) ==
    \E outcome \in Notifications :
        PostPatientNotified(hasName, hasPhone, type, outcome)

\* app.put('/api/patients/:id/status')
PutPatientStatus(id, status) ==
    /\ edits < MaxEdits
    /\ edits' = edits + 1
    /\ store' = {IF p._id = id THEN [p EXCEPT !.status = status] ELSE p :
                 p \in store}
    /\ Publish(store')
    /\ resp' = Response("PUT_STATUS", 200, TRUE, 1)
    /\ UNCHANGED <<nextId, now, highest, running>>

\* mutant: the queue is read and emitted before the document is deleted
DeletePatientStale(id) ==
    IF Lookup(store, id) # {}
    THEN /\ store' = store \ Lookup(store, id)
         /\ Publish(store)
         /\ resp' = Response("DELETE", 200, TRUE, 1)
         /\ UNCHANGED <<nextId, now, highest, edits, running>>
    ELSE /\ resp' = Response("DELETE", 404, FALSE, 0)
         /\ sorted' = <<>>
         /\ annotated' = <<>>
         /\ UNCHANGED <<store, nextId, now, highest, edits, running, broadcast>>

\* mutant: the document is retired (status DONE) instead of removed
DeletePatientRetires(id) ==
    IF Lookup(store, id) # {}
    THEN /\ store' = {IF p._id = id THEN [p EXCEPT !.status = "DONE"] ELSE p :
                      p \in store}
         /\ Publish(store')
         /\ resp' = Response("DELETE", 200, TRUE, 1)
         /\ UNCHANGED <<nextId, now, highest, edits, running>>
    ELSE /\ resp' = Response("DELETE", 404, FALSE, 0)
         /\ sorted' = <<>>
         /\ annotated' = <<>>
         /\ UNCHANGED <<store, nextId, now, highest, edits, running, broadcast>>

\* app.delete('/api/patients/:id')
DeletePatient(id) ==
    IF Lookup(store, id) # {}
    THEN /\ store' = store \ Lookup(store, id)
         /\ Publish(store')
         /\ resp' = Response("DELETE", 200, TRUE, 1)
         /\ UNCHANGED <<nextId, now, highest, edits, running>>
    ELSE /\ resp' = Response("DELETE", 404, FALSE, 0)
         /\ sorted' = <<>>
         /\ annotated' = <<>>
         /\ UNCHANGED <<store, nextId, now, highest, edits, running, broadcast>>

\* app.post('/api/reset')
PostReset ==
    /\ store' = {}
    /\ broadcast' = <<>>
    /\ resp' = Response("RESET", 200, TRUE, 1)
    /\ sorted' = <<>>
    /\ annotated' = <<>>
    /\ UNCHANGED <<nextId, now, highest, edits, running>>

\* the ids a request can name: those of the documents in the collection,
\* and one the collection does not hold
Ids == {p._id : p \in store} \cup {nextId + 1}

\* a body with name and phone and any type, or a body that lacks one of them
Register ==
    \/ \E type \in BodyTypes : PostPatient(TRUE, TRUE, type)
    \/ \E hasName \in BOOLEAN, hasPhone \in BOOLEAN :
           ~(hasName /\ hasPhone) /\ PostPatient(hasName, hasPhone, "ABSENT")

EditStatus == \E id \in Ids, status \in Statuses : PutPatientStatus(id, status)
Delete == \E id \in Ids : DeletePatient(id)

Next ==
    \/ START_CONSULTATION
    \/ Register
    \/ EditStatus
    \/ Delete
    \/ PostReset

Spec == Init /\ [][Next]_vars

\* The same server when no client uses PUT /api/patients/:id/status and
\* every request is one the server accepts: registrations with name and
\* phone, deletes of documents that are in the collection.
RegisterValid == \E type \in BodyTypes : PostPatient(TRUE, TRUE, type)
DeletePresent == \E id \in {p._id : p \in store} : DeletePatient(id)

NextServing ==
    \/ START_CONSULTATION
    \/ RegisterValid
    \/ DeletePresent
    \/ PostReset

SpecServing == Init /\ [][NextServing]_vars

-----------------------------------------------------------------------------
(* Reading the queue of a given collection: the composer and the annotator *)
(* as functions of the store.  The collections are ones the handlers can   *)
(* build: patients registered in _id order at non-decreasing clock values, *)
(* their status moved by START_CONSULTATION or set by status edits.        *)

\* clock value of the i-th registration: gap[i] says whether the clock moved
RECURSIVE CreatedAt(_, _)
CreatedAt(gap, i) == IF i = 1 THEN 1 ELSE CreatedAt(gap, i - 1) + gap[i]

RichStore(n, type, status, gap) ==
    {[NewPatient(i, i, type[i], CreatedAt(gap, i)) EXCEPT !.status = status[i]] :
     i \in 1..n}

PlainStore(type) ==
    {NewPatient(i, i, type[i], i) : i \in 1..Len(type)}

LatestCreatedAt(S) ==
    IF S = {} THEN 0
    ELSE CHOOSE t \in {p.createdAt : p \in S} : \A p \in S : p.createdAt <= t

\* the server holding the collection S after registrations and status edits
Holding(S) ==
    /\ store = S
    /\ nextId = Cardinality(S)
    /\ now = LatestCreatedAt(S)
    /\ highest = Cardinality(S)
    /\ edits = Cardinality({p \in S : p.status # "WAITING"})
    /\ sorted = <<>>
    /\ annotated = <<>>
    /\ broadcast = <<>>
    /\ resp = NoResponse
    /\ running = [h \in Handlers |-> Idle]

\* up to MaxRich patients of any kind and status, createdAt tied or not
InitRich ==
    \E n \in 0..MaxRich :
    \E type \in [1..n -> Types], status \in [1..n -> Statuses],
       gap \in [2..n -> {0, 1}] :
        Holding(RichStore(n, type, status, gap))

\* up to MaxPlain WAITING patients of any kind, registered one clock tick apart
InitPlain ==
    \E n \in 0..MaxPlain :
    \E type \in [1..n -> Types] :
        Holding(PlainStore(type))

InitQueue == InitRich \/ InitPlain

NextQueue == GET_QUEUE

SpecQueue == InitQueue /\ [][NextQueue]_vars

-----------------------------------------------------------------------------
(* The queue composer and the annotator.                                   *)

\* the latest handler read the queue of the store as it now stands
Composed ==
    /\ resp.ok
    /\ resp.op \in {"GET_QUEUE", "START_CONSULTATION", "POST_PATIENT",
                    "PUT_STATUS", "DELETE"}

Booked(S) == {p \in S : p.type = "BOOKED"}
WalkIn(S) == {p \in S : p.type = "WALK_IN"}

Range(q) == {q[k] : k \in 1..Len(q)}

\* C3: the composer returns each WAITING or IN_PROGRESS patient exactly once
\* and no DONE patient, and two patients of the same kind never stand
\* against their arrival (createdAt) order.
C3_StablePermutation ==
    Composed =>
        /\ Len(sorted) = Cardinality(Active(store))
        /\ Range(sorted) = Active(store)
        /\ \A i \in 1..Len(sorted), j \in 1..Len(sorted) :
               (i < j /\ sorted[i].type = sorted[j].type)
                   => sorted[i].createdAt <= sorted[j].createdAt

\* a composition that had to drop a DONE patient and to put a booked
\* patient before a walk-in that arrived earlier
C3_Witness ==
    /\ resp.op = "GET_QUEUE"
    /\ \E p \in store : p.status = "DONE"
    /\ Len(sorted) = 2
    /\ sorted[1].type = "BOOKED" /\ sorted[2].type = "WALK_IN"
    /\ sorted[2].createdAt < sorted[1].createdAt

DistinctArrival(S) ==
    \A p \in S, q \in S : p # q => p.createdAt # q.createdAt

\* the patients of S in arrival order (S has distinct createdAt)
ByArrival(S) ==
    [k \in 1..Cardinality(S) |->
        CHOOSE p \in S :
            Cardinality({q \in S : q.createdAt < p.createdAt}) = k - 1]

Min(a, b) == IF a <= b THEN a ELSE b

\* The reference merge, by places: the k-th booked patient (from 0) has one
\* walk-in before it for every full group of 3 booked before it, as long as
\* walk-ins last; the j-th walk-in (from 0) has 3 booked before it for each
\* walk-in up to and including itself, as long as booked patients last.
ReferencePlace(booked, walkIn, p) ==
    IF p.type = "BOOKED"
    THEN LET k == CHOOSE n \in 0..(Len(booked) - 1) : booked[n + 1] = p
         IN  k + Min(k \div 3, Len(walkIn))
    ELSE LET j == CHOOSE n \in 0..(Len(walkIn) - 1) : walkIn[n + 1] = p
         IN  j + Min(3 * (j + 1), Len(booked))

ReferenceMerge(booked, walkIn) ==
    [k \in 1..(Len(booked) + Len(walkIn)) |->
        CHOOSE p \in Range(booked) \cup Range(walkIn) :
            ReferencePlace(booked, walkIn, p) = k - 1]

\* scenario A: B1..B4 registered, then W1, W2
ScenarioA ==
    PlainStore(<<"BOOKED", "BOOKED", "BOOKED", "BOOKED", "WALK_IN", "WALK_IN">>)

QueueIds(q) == [k \in 1..Len(q) |-> q[k]._id]

\* C4: when the active patients have distinct createdAt, the composer output
\* is the reference merge (3 from the booked list, 1 from the walk-in list,
\* the longer list drained at the end) of the two lists in arrival order;
\* B1..B4 then W1, W2 compose to B1 B2 B3 W1 B4 W2.
C4_ReferenceMerge ==
    (Composed /\ DistinctArrival(Active(store))) =>
        /\ sorted = ReferenceMerge(ByArrival(Booked(Active(store))),
                                   ByArrival(WalkIn(Active(store))))
        /\ store = ScenarioA => QueueIds(sorted) = <<1, 2, 3, 5, 4, 6>>

C4_Witness ==
    /\ resp.op = "GET_QUEUE"
    /\ store = ScenarioA
    /\ QueueIds(sorted) = <<1, 2, 3, 5, 4, 6>>

\* q[s..e] is a maximal run of BOOKED patients of q
BookedRun(q, s, e) ==
    /\ 1 <= s /\ s <= e /\ e <= Len(q)
    /\ \A k \in s..e : q[k].type = "BOOKED"
    /\ s = 1 \/ q[s - 1].type = "WALK_IN"
    /\ e = Len(q) \/ q[e + 1].type = "WALK_IN"

BookedIn(q, from, to) ==
    Cardinality({k \in from..to : q[k].type = "BOOKED"})

\* C5: a booked run that is followed by a walk-in has exactly 3 patients when
\* 3 or more booked patients were unplaced at its start, and never more
\* than 3; a booked run shorter than 3 is the last booked run.
C5_SlottingRatio ==
    Composed =>
        \A s \in 1..Len(sorted), e \in 1..Len(sorted) :
            BookedRun(sorted, s, e) =>
                LET length == e - s + 1
                    unplaced == BookedIn(sorted, s, Len(sorted))
                IN  /\ (e < Len(sorted) /\ unplaced >= 3) => length = 3
                    /\ e < Len(sorted) => length <= 3
                    /\ length < 3 => BookedIn(sorted, e + 1, Len(sorted)) = 0

\* B B B W B B B ...: a full run, a walk-in, and booked patients after it
C5_Witness ==
    /\ resp.op = "GET_QUEUE"
    /\ Len(sorted) >= 7
    /\ BookedRun(sorted, 1, 3)
    /\ sorted[4].type = "WALK_IN"
    /\ \E e \in 5..Len(sorted) : BookedRun(sorted, 5, e)

\* C6: patients of one kind with equal createdAt stand in ascending
\* tokenNumber, so the composition is a function of the active set.
C6_TieBreakByToken ==
    Composed =>
        \A i \in 1..Len(sorted), j \in 1..Len(sorted) :
            (/\ i < j
             /\ sorted[i].type = sorted[j].type
             /\ sorted[i].createdAt = sorted[j].createdAt)
                => sorted[i].tokenNumber < sorted[j].tokenNumber

\* C7: the annotator keeps the entries and their order; an IN_PROGRESS entry
\* gets position 0, any other entry its 0-based index, and every entry an
\* estimated wait of 15 times its position.
C7_WaitTimes ==
    /\ Len(annotated) = Len(sorted)
    /\ \A k \in 1..Len(sorted) :
           LET item == annotated[k]
           IN  /\ item._id = sorted[k]._id
               /\ item.tokenNumber = sorted[k].tokenNumber
               /\ item.type = sorted[k].type
               /\ item.status = sorted[k].status
               /\ item.createdAt = sorted[k].createdAt
               /\ item.startedAt = sorted[k].startedAt
               /\ item.completedAt = sorted[k].completedAt
               /\ item.status = "IN_PROGRESS" => item.position = 0
               /\ item.status # "IN_PROGRESS" => item.position = k - 1
               /\ item.estimatedWaitTime = 15 * item.position

\* an IN_PROGRESS entry behind a WAITING one: position 0 at index 2
C7_Witness ==
    /\ resp.op = "GET_QUEUE"
    /\ Len(annotated) >= 3
    /\ annotated[1].status = "WAITING"
    /\ annotated[3].status = "IN_PROGRESS" /\ annotated[3].position = 0
    /\ annotated[2].status = "WAITING" /\ annotated[2].estimatedWaitTime = 15

-----------------------------------------------------------------------------
(* The serving controller and the mutation handlers.                       *)

\* C1: without status edits, no reachable store holds two IN_PROGRESS
\* patients.
C1_AtMostOneInProgress == Cardinality(InProgress(store)) <= 1

\* a handover: one patient completed, the next one started, one waiting
C1_Witness ==
    /\ resp.op = "START_CONSULTATION"
    /\ resp.completed # NoId /\ resp.started # NoId
    /\ Cardinality(InProgress(store)) = 1
    /\ Waiting(store) # {}

\* the patients of S that arrived first (least createdAt)
Earliest(S) == {p \in S : \A q \in S : p.createdAt <= q.createdAt}

\* the patients that can head the composed queue of the active set A: the
\* earliest booked one, or the earliest walk-in when no booked one is active
Heads(A) == IF Booked(A) # {} THEN Earliest(Booked(A)) ELSE Earliest(WalkIn(A))

\* C2: START_CONSULTATION on a store with exactly one IN_PROGRESS patient P
\* and a WAITING one leaves P DONE with completedAt set, and exactly one
\* IN_PROGRESS patient, with startedAt set: a head of the queue composed
\* once P was completed; the emitted queue shows it at position 0, wait 0.
C2_Handover ==
    [][ (/\ resp'.op = "START_CONSULTATION"
         /\ Cardinality(InProgress(store)) = 1
         /\ Waiting(store) # {}
         /\ START_CONSULTATION)
        => LET P == CHOOSE p \in InProgress(store) : TRUE
           IN  /\ \E d \in store' :
                      /\ d = [P EXCEPT !.status = "DONE", !.completedAt = d.completedAt]
                      /\ d.completedAt # NoDate
               /\ \E x \in Heads(Waiting(store)) :
                      /\ InProgress(store') =
                            {[x EXCEPT !.status = "IN_PROGRESS",
                                       !.startedAt = now']}
                      /\ now' # NoDate
                      /\ \E k \in 1..Len(broadcast') :
                             /\ broadcast'[k]._id = x._id
                             /\ broadcast'[k].status = "IN_PROGRESS"
                             /\ broadcast'[k].position = 0
                             /\ broadcast'[k].estimatedWaitTime = 0
      ]_vars

\* after a handover the booked patient is served although a walk-in that
\* arrived earlier still waits
C2_Witness ==
    /\ resp.op = "START_CONSULTATION"
    /\ resp.completed # NoId /\ resp.started # NoId
    /\ \E d \in store : d._id = resp.completed /\ d.status = "DONE"
    /\ \E x \in store, w \in store :
           /\ x._id = resp.started /\ x.status = "IN_PROGRESS"
           /\ x.type = "BOOKED"
           /\ w.status = "WAITING" /\ w.type = "WALK_IN"
           /\ w.createdAt < x.createdAt

\* C8: every tokenNumber assigned is greater than all assigned before it,
\* whether or not their patients are still in the store.
C8_TokensNeverReused ==
    [][ \A patient \in store' :
            patient._id > nextId => patient.tokenNumber > highest ]_vars

Mutations == {"START_CONSULTATION", "POST_PATIENT", "PUT_STATUS", "DELETE",
              "RESET"}

\* C9: a mutation handler that answered success emitted QUEUE_UPDATE exactly
\* once, and its payload is the annotated composition of the store the
\* handler left behind.
C9_PublishAfterMutation ==
    (resp.op \in Mutations /\ resp.ok) =>
        /\ resp.emits = 1
        /\ \E patients \in FindActiveSorted(store) :
               broadcast = calculateWaitTimes(getSortedQueue(patients))

\* a delete that left patients behind, one of them IN_PROGRESS
C9_Witness ==
    /\ resp.op = "DELETE" /\ resp.ok
    /\ Len(broadcast) >= 1
    /\ InProgress(store) # {}
    /\ \E p \in store : p.status = "DONE"

\* C10: a status edit or a delete for an id that is not in the store, and a
\* registration without name or phone, answer an error, leave the store as
\* it was and emit nothing.
C10_FailuresHaveNoEffect ==
    [][ (\/ \E id \in Ids, status \in Statuses :
                Lookup(store, id) = {} /\ PutPatientStatus(id, status)
         \/ \E id \in Ids :
                Lookup(store, id) = {} /\ DeletePatient(id)
         \/ \E hasName \in BOOLEAN, hasPhone \in BOOLEAN, type \in BodyTypes :
                ~(hasName /\ hasPhone) /\ PostPatient(hasName, hasPhone, type))
        => (/\ ~resp'.ok
            /\ resp'.emits = 0
            /\ store' = store
            /\ broadcast' = broadcast)
      ]_vars

-----------------------------------------------------------------------------
(* Store failures.  A store call of a handler can reject (the connection   *)
(* to MongoDB is lost, a write is refused).  getSortedQueue catches the    *)
(* rejection of its find() and returns []; the other calls throw into the  *)
(* catch block of the handler.  Nothing in the handlers undoes a write     *)
(* that was made before the failing call.                                  *)

\* the store calls of START_CONSULTATION, in program order
StoreCalls == {"COMPLETE", "COMPOSE", "START", "RECOMPOSE"}

\* getSortedQueue() on the collection S: the try block, or [] from the catch
\* block when the find() rejects
getSortedQueueCaught(S, findFails) ==
    IF findFails THEN {<<>>}
    ELSE {getSortedQueue(patients) : patients \in FindActiveSorted(S)}

\* getSortedQueue(); calculateWaitTimes(queue); io.emit('QUEUE_UPDATE', ...)
\* when the find() may reject
PublishCaught(S, findFails) ==
    \E queue \in getSortedQueueCaught(S, findFails) :
        /\ sorted' = queue
        /\ annotated' = calculateWaitTimes(queue)
        /\ broadcast' = annotated'

\* socket.emit('ERROR', ...) of the catch block of START_CONSULTATION
ConsultationError(completed, failing) ==
    /\ resp' = [Response("START_CONSULTATION", 0, FALSE, 0)
                  EXCEPT !.completed = completed, !.failed = failing]
    /\ sorted' = <<>>
    /\ annotated' = <<>>
    /\ UNCHANGED broadcast

\* socket.on('START_CONSULTATION') in which the store call `failing` rejects
\* (the calls before it succeed; START is only made on a non-empty queue)
StartConsultationFailing(failing) ==
    \E at \in Clock :
        /\ now' = at
        /\ UNCHANGED <<nextId, highest, edits, running>>
        /\ IF failing = "COMPLETE"
           THEN store' = store /\ ConsultationError(NoId, failing)
           ELSE \E c \in AfterComplete(store, at) :
                \E queue \in getSortedQueueCaught(c.store, failing = "COMPOSE") :
                    IF failing = "START"
                    THEN /\ Len(queue) > 0
                         /\ store' = c.store
                         /\ ConsultationError(c.completed, failing)
                    ELSE LET n == AfterStart(c.store, queue, at)
                         IN  /\ store' = n.store
                             /\ PublishCaught(store', failing = "RECOMPOSE")
                             /\ resp' = [Response("START_CONSULTATION", 0, TRUE, 1)
                                           EXCEPT !.completed = c.completed,
                                                  !.started = n.started,
                                                  !.failed = failing]

StartConsultationFails == \E failing \in StoreCalls : StartConsultationFailing(failing)

NextFault ==
    \/ START_CONSULTATION
    \/ RegisterValid
    \/ DeletePresent
    \/ StartConsultationFails

SpecFault == Init /\ [][NextFault]_vars

\* C11: a START_CONSULTATION in which a store call fails answers an error,
\* leaves the store as it was before the handler began and emits no
\* QUEUE_UPDATE.
C11_FailureAborts ==
    [][ (/\ resp'.failed # "NONE"
         /\ StartConsultationFails)
        => (/\ ~resp'.ok
            /\ resp'.emits = 0
            /\ store' = store
            /\ broadcast' = broadcast)
      ]_vars

\* C12: a registration whose patient.save() succeeded leaves the new patient
\* in the store as WAITING, emits the queue of that store once and answers
\* 201, whether the notification was sent, skipped or failed; the answer
\* differs between these outcomes in the flag whatsappSent only.
C12_NotificationNotFatal ==
    [][ \A outcome \in Notifications :
          (/\ resp'.op = "POST_PATIENT"
           /\ \E type \in BodyTypes : PostPatientNotified(TRUE, TRUE, type, outcome))
          => (/\ \E patient \in store' :
                     /\ patient._id = nextId'
                     /\ patient.status = "WAITING"
                     /\ store' = store \cup {patient}
              /\ \E patients \in FindActiveSorted(store') :
                     broadcast' = calculateWaitTimes(getSortedQueue(patients))
              /\ resp' = [Response("POST_PATIENT", 201, TRUE, 1)
                            EXCEPT !.whatsappSent = (outcome = "SENT")])
      ]_vars

\* a registration that answered 201 with whatsappSent false, its patient
\* WAITING in the store and in the emitted queue, behind the one in service
C12_Witness ==
    /\ resp.op = "POST_PATIENT" /\ resp.code = 201
    /\ ~resp.whatsappSent
    /\ InProgress(store) # {}
    /\ \E patient \in store :
           /\ patient._id = nextId
           /\ patient.status = "WAITING"
           /\ \E k \in 1..Len(broadcast) : broadcast[k]._id = patient._id

C14_NeverFailsOnContents ==
    [][ (/\ resp'.op = "START_CONSULTATION"
         /\ START_CONSULTATION)
        => (/\ resp'.ok
            /\ resp'.emits = 1
            /\ InProgress(store) = {}
                   => (/\ resp'.completed = NoId
                       /\ \A p \in store : \E q \in store' :
                              /\ q = [p EXCEPT !.status = q.status,
                                               !.startedAt = q.startedAt]
                              /\ q.status = p.status \/ q._id = resp'.started)
            /\ (Waiting(store) = {} /\ Cardinality(InProgress(store)) <= 1)
                   => (/\ resp'.started = NoId
                       /\ InProgress(store') = {}
                       /\ broadcast' = <<>>))
      ]_vars

\* START_CONSULTATION on a store that holds DONE patients only: nobody
\* completed, nobody started, the empty queue emitted
C14_Witness ==
    /\ resp.op = "START_CONSULTATION" /\ resp.ok /\ resp.emits = 1
    /\ resp.completed = NoId /\ resp.started = NoId
    /\ store # {}
    /\ \A p \in store : p.status = "DONE"
    /\ broadcast = <<>>

\* C15: over registrations, status edits, deletes and START_CONSULTATION, a
\* startedAt or completedAt that is set is never written again, and each is
\* written only by the START_CONSULTATION that moves the patient from
\* WAITING to IN_PROGRESS, respectively from IN_PROGRESS to DONE.
C15_StampedOnce ==
    [][ \A p \in store, q \in store' :
            p._id = q._id
            => (/\ p.startedAt # NoDate => q.startedAt = p.startedAt
                /\ p.completedAt # NoDate => q.completedAt = p.completedAt
                /\ q.startedAt # p.startedAt
                       => (/\ resp'.op = "START_CONSULTATION"
                           /\ resp'.started = p._id
                           /\ p.status = "WAITING" /\ q.status = "IN_PROGRESS")
                /\ q.completedAt # p.completedAt
                       => (/\ resp'.op = "START_CONSULTATION"
                           /\ resp'.completed = p._id
                           /\ p.status = "IN_PROGRESS" /\ q.status = "DONE"))
      ]_vars

\* C16: without status edits, a patient enters the store as WAITING, and a
\* step that changes the status of a patient takes it from WAITING to
\* IN_PROGRESS or from IN_PROGRESS to DONE.
C16_StatusLifecycle ==
    [][ \A q \in store' :
            /\ Lookup(store, q._id) = {} => q.status = "WAITING"
            /\ \A p \in Lookup(store, q._id) :
                   p.status # q.status
                   => <<p.status, q.status>> \in
                          {<<"WAITING", "IN_PROGRESS">>, <<"IN_PROGRESS", "DONE">>}
      ]_vars

\* a patient that went the whole way, and the next one in service
C16_Witness ==
    /\ resp.op = "START_CONSULTATION"
    /\ \E d \in store, x \in store :
           /\ d._id = resp.completed /\ d.status = "DONE"
           /\ d.startedAt # NoDate /\ d.completedAt # NoDate
           /\ x._id = resp.started /\ x.status = "IN_PROGRESS"
    /\ Waiting(store) # {}

-----------------------------------------------------------------------------
(* Interleaved handlers.  The handlers are async functions on one event    *)
(* loop and nothing in server.ts makes one wait for another: a handler     *)
(* runs until it awaits a store call, and while it is suspended other      *)
(* handlers run.  A step below is one store call, applied by the store in  *)
(* one piece, together with the code that follows it up to the next store  *)
(* call.  The requests are START_CONSULTATION and POST /api/patients with  *)
(* name and phone.                                                         *)

Resume(h, pc) == running[h].pc = pc

Suspend(h, locals) == running' = [running EXCEPT ![h] = locals]

\* registrations that read their tokenNumber and have not saved yet
Saving == {h \in Handlers : running[h].pc = "save"}

\* START_CONSULTATION arrives: findOneAndUpdate({ status: 'IN_PROGRESS' }, ...)
ConsultationCompletes(h) ==
    /\ Resume(h, "idle")
    /\ \E at \in Clock :
       \E c \in AfterComplete(store, at) :
           /\ now' = at
           /\ store' = c.store
           /\ Suspend(h, [Idle EXCEPT !.pc = "compose", !.completed = c.completed])
    /\ UNCHANGED <<nextId, highest, edits, sorted, annotated, broadcast, resp>>

\* const queue = await getSortedQueue(): the find() of the first call
ConsultationComposes(h) ==
    /\ Resume(h, "compose")
    /\ \E patients \in FindActiveSorted(store) :
           LET queue == getSortedQueue(patients)
           IN  Suspend(h, [running[h] EXCEPT
                             !.pc = IF Len(queue) > 0 THEN "start" ELSE "publish",
                             !.head = IF Len(queue) > 0 THEN queue[1]._id ELSE NoId])
    /\ UNCHANGED <<store, nextId, now, highest, edits, sorted, annotated,
                   broadcast, resp>>

\* Patient.findByIdAndUpdate(queue[0]._id, ...), with the queue read earlier
ConsultationStarts(h) ==
    /\ Resume(h, "start")
    /\ \E at \in Clock :
           /\ now' = at
           /\ store' = StartNext(store, running[h].head, at)
    /\ Suspend(h, [running[h] EXCEPT !.pc = "publish"])
    /\ UNCHANGED <<nextId, highest, edits, sorted, annotated, broadcast, resp>>

\* the second getSortedQueue(), io.emit and socket.emit('CONSULTATION_STARTED')
ConsultationPublishes(h) ==
    /\ Resume(h, "publish")
    /\ Publish(store)
    /\ resp' = [Response("START_CONSULTATION", 0, TRUE, 1)
                  EXCEPT !.completed = running[h].completed,
                         !.started = running[h].head]
    /\ Suspend(h, Idle)
    /\ UNCHANGED <<store, nextId, now, highest, edits>>

\* POST /api/patients arrives: Patient.findOne().sort({ tokenNumber: -1 })
RegistrationReadsToken(h, type) ==
    /\ Resume(h, "idle")
    /\ nextId + Cardinality(Saving) < MaxArrivals
    /\ Suspend(h, [Idle EXCEPT !.pc = "save",
                               !.tokenNumber = LastTokenNumber(store) + 1,
                               !.type = TypeOrDefault(type)])
    /\ UNCHANGED <<store, nextId, now, highest, edits, sorted, annotated,
                   broadcast, resp>>

\* the unique index on tokenNumber (models/Patient: unique: true)
DuplicateKey(S, tokenNumber) == \E p \in S : p.tokenNumber = tokenNumber

\* await patient.save(): the insert, or the duplicate key error of the
\* unique index, which the catch block answers with 400
RegistrationSaves(h) ==
    /\ Resume(h, "save")
    /\ IF DuplicateKey(store, running[h].tokenNumber)
       THEN /\ resp' = Response("POST_PATIENT", 400, FALSE, 0)
            /\ Suspend(h, Idle)
            /\ UNCHANGED <<store, nextId, now, highest>>
       ELSE \E at \in Clock :
                /\ now' = at
                /\ store' = store \cup {NewPatient(nextId + 1, running[h].tokenNumber,
                                                   running[h].type, at)}
                /\ nextId' = nextId + 1
                /\ highest' = IF running[h].tokenNumber > highest
                              THEN running[h].tokenNumber ELSE highest
                /\ Suspend(h, [running[h] EXCEPT !.pc = "notify"])
                /\ UNCHANGED resp
    /\ UNCHANGED <<edits, sorted, annotated, broadcast>>

\* sendWhatsAppMessage, getSortedQueue(), io.emit and res.status(201)
RegistrationPublishes(h) ==
    /\ Resume(h, "notify")
    /\ Publish(store)
    /\ \E outcome \in Notifications :
           resp' = [Response("POST_PATIENT", 201, TRUE, 1)
                      EXCEPT !.whatsappSent = sendWhatsAppMessage(outcome)]
    /\ Suspend(h, Idle)
    /\ UNCHANGED <<store, nextId, now, highest, edits>>

ConsultationStep ==
    \E h \in Handlers :
        \/ ConsultationCompletes(h)
        \/ ConsultationComposes(h)
        \/ ConsultationStarts(h)
        \/ ConsultationPublishes(h)

RegistrationStep ==
    \E h \in Handlers :
        \/ \E type \in BodyTypes : RegistrationReadsToken(h, type)
        \/ RegistrationSaves(h)
        \/ RegistrationPublishes(h)

NextInterleaved == ConsultationStep \/ RegistrationStep

SpecInterleaved == Init /\ [][NextInterleaved]_vars

\* C17: while START_CONSULTATION and registration handlers interleave at
\* their store calls, any two IN_PROGRESS patients of the store are the
\* same patient.
C17_NoTwoInProgress ==
    \A p \in InProgress(store), q \in InProgress(store) : p._id = q._id

\* C20: while registrations with name and phone interleave at their store
\* calls, no two patients of the store have the same tokenNumber, and every
\* registration that has answered answered 201 with its patient saved.
C20_ConcurrentRegistrations ==
    /\ \A p \in store, q \in store : p.tokenNumber = q.tokenNumber => p = q
    /\ resp.op = "POST_PATIENT" => (resp.ok /\ resp.code = 201)

-----------------------------------------------------------------------------
(* Serving a waiting room: the doctor presses START_CONSULTATION again and *)
(* again on a store of WAITING patients, and nothing else happens.         *)

NextAdvance == START_CONSULTATION

SpecAdvance == InitPlain /\ [][NextAdvance]_vars

\* the queue composed before the first START_CONSULTATION: in SpecAdvance
\* every document of the store was WAITING then, and none is added or removed
ComposedAtFirst == getSortedQueue(ByArrival(store))

\* C18: with nothing but START_CONSULTATION calls, patients are started in
\* the order of the queue composed before the first call: a patient is
\* started only when every patient before it in that queue was started.  So
\* the walk-in that stood behind 3 booked patients is started before the
\* fourth booked one.
C18_ServedInComposedOrder ==
    \A i \in 1..Len(ComposedAtFirst), j \in 1..Len(ComposedAtFirst) :
        (i < j /\ ComposedAtFirst[j].status # "WAITING")
            => ComposedAtFirst[i].status # "WAITING"

-----------------------------------------------------------------------------
(* The reception desk and the doctor: registrations with name and phone    *)
(* and START_CONSULTATION calls, one at a time, nothing else.              *)

NextClinic ==
    \/ START_CONSULTATION
    \/ RegisterValid

SpecClinic == Init /\ [][NextClinic]_vars

\* C19: in the queue emitted last, no two entries have the same position;
\* an entry has position 0 only as the first entry, an IN_PROGRESS entry
\* is the first entry, and when an entry is IN_PROGRESS no other entry has
\* position 0.
C19_PositionsDistinct ==
    /\ \A i \in 1..Len(broadcast), j \in 1..Len(broadcast) :
           i # j => broadcast[i].position # broadcast[j].position
    /\ \A k \in 1..Len(broadcast) :
           /\ broadcast[k].position = 0 => k = 1
           /\ broadcast[k].status = "IN_PROGRESS" => k = 1

====
